---------------------------- MODULE Spec2Model ----------------------------
(***************************************************************************)
(* The POEM command line interface (src/poem/cli.py): the ls listing     *)
(* commands over the component registries, the parameters listing, the   *)
(* github-readme composite report and the start-up loop that mounts one  *)
(* train subcommand per registered model.                                *)
(*                                                                         *)
(* Text is a sequence of tokens.  A character is a one-character token;    *)
(* the literal fragments of the f-strings of cli.py are kept as one token  *)
(* each.  Python's None is the one-token text None.                        *)
(***************************************************************************)
EXTENDS Integers, Sequences, FiniteSets, TLC

(* ------------------------------ bounds -------------------------------- *)

\* longest first documentation line drawn for a model
MaxLen == 6
\* most entries drawn for one registry
MaxReg == 3

(* --------------------------- Python strings --------------------------- *)

None == <<"<None>">>

NL == "\n"

\* the backquote character of the reference markup
BQ == "<backquote>"

\* code points of the characters the model draws (ord())
Ord(c) ==
  CASE c = NL  -> 10
    [] c = "A" -> 65
    [] c = "B" -> 66
    [] c = "X" -> 88
    [] c = "Y" -> 89
    [] c = "Z" -> 90
    [] c = "[" -> 91
    [] c = "]" -> 93
    [] c = "a" -> 97
    [] c = "b" -> 98
    [] c = "c" -> 99
    [] c = "i" -> 105
    [] c = "n" -> 110
    [] c = "t" -> 116
    [] OTHER   -> 0   \* no other character is compared

\* str.__lt__: lexicographic order by code point
RECURSIVE StrLess(_, _)
StrLess(s, t) ==
  IF t = <<>> THEN FALSE
  ELSE IF s = <<>> THEN TRUE
  ELSE IF Ord(Head(s)) # Ord(Head(t)) THEN Ord(Head(s)) < Ord(Head(t))
  ELSE StrLess(Tail(s), Tail(t))

\* str.find(ch): 0-based index of the first occurrence, -1 when absent
RECURSIVE FindFrom(_, _, _)
FindFrom(s, ch, k) ==
  IF k > Len(s) THEN -1
  ELSE IF s[k] = ch THEN k - 1
  ELSE FindFrom(s, ch, k + 1)

find(s, ch) == FindFrom(s, ch, 1)

\* a slice bound as Python normalises it: negative counts from the end,
\* then clamped to 0 .. len
SliceIndex(k, n) ==
  LET j == IF k < 0 THEN k + n ELSE k
  IN  IF j < 0 THEN 0 ELSE IF j > n THEN n ELSE j

\* s[start:stop]
slice(s, start, stop) ==
  SubSeq(s, SliceIndex(start, Len(s)) + 1, SliceIndex(stop, Len(s)))

upper(c) == IF c = "a" THEN "A" ELSE IF c = "b" THEN "B" ELSE c
lower(c) == IF c = "A" THEN "a" ELSE IF c = "B" THEN "b" ELSE c

\* str.capitalize(): first character upper-cased, the rest lower-cased
capitalize(s) ==
  [k \in 1..Len(s) |-> IF k = 1 THEN upper(s[k]) ELSE lower(s[k])]

\* str.splitlines(), for the line boundary "\n"
RECURSIVE splitlines(_)
splitlines(s) ==
  IF s = <<>> THEN <<>>
  ELSE LET k == find(s, NL)
       IN  IF k = -1 THEN <<s>>
           ELSE <<SubSeq(s, 1, k)>> \o splitlines(SubSeq(s, k + 2, Len(s)))

(* ----------------------- registries and values ------------------------- *)

\* type.__doc__, what value.__class__.__doc__ is when value is a class
TypeDoc ==
  <<"type(object) -> the object's type", NL,
    "type(name, bases, dict, **kwds) -> a new type">>

\* A registered value as cli.py reads it: __name__ (hasname: the attribute
\* exists), __doc__, __class__.__doc__, and whether build_cli_from_cls
\* accepts its constructor.
Class(n, doc, ok) ==
  [name |-> n, hasname |-> TRUE, doc |-> doc, clsdoc |-> TypeDoc,
   buildable |-> ok]

\* an instance has no __name__, and its __doc__ is its type's
Instance(clsdoc) ==
  [name |-> None, hasname |-> FALSE, doc |-> clsdoc, clsdoc |-> clsdoc,
   buildable |-> TRUE]

Item(n, v) == [name |-> n, value |-> v]

\* dict.items() of a registry is the sequence of its items in
\* registration order; keys are unique
Keys(d) == {d[k].name : k \in 1..Len(d)}

IsDict(d) == \A j, k \in 1..Len(d) : d[j].name = d[k].name => j = k

RECURSIVE InsertItem(_, _)
InsertItem(sortedItems, it) ==
  IF sortedItems = <<>> THEN <<it>>
  ELSE IF StrLess(it.name, Head(sortedItems).name)
       THEN <<it>> \o sortedItems
       ELSE <<Head(sortedItems)>> \o InsertItem(Tail(sortedItems), it)

RECURSIVE SortItems(_)
SortItems(items) ==
  IF items = <<>> THEN <<>>
  ELSE InsertItem(SortItems(SubSeq(items, 1, Len(items) - 1)),
                  items[Len(items)])

\* the items left in registration order
sorted_unsorted(d) == d

\* sorted(d.items()): by name, the names of a dict being distinct
sorted(d) == SortItems(d)

(* --------------------------- table formats ---------------------------- *)

PLAIN == "plain"
RST == "rst"
GITHUB == "github"

\* --tablefmt values: the three cli.py names, and values it does not name
Formats == {PLAIN, RST, GITHUB, "simple", "fancy_grid"}

(* ------------------------- _get_model_lines --------------------------- *)

\* as doc_error, with str.index in place of str.find: a missing bracket
\* raises
doc_error_strict(doc) ==
  IF doc = None THEN "AttributeError"
  ELSE IF splitlines(doc) = <<>> THEN "IndexError"
  ELSE IF find(splitlines(doc)[1], "[") = -1
          \/ find(splitlines(doc)[1], "]") = -1 THEN "ValueError"
  ELSE "none"

\* what doc.splitlines()[0] raises: None has no splitlines, and an empty
\* text has no line 0
doc_error(doc) ==
  IF doc = None THEN "AttributeError"
  ELSE IF splitlines(doc) = <<>> THEN "IndexError"
  ELSE "none"

\* as model_line, the rst span ending at the ']' itself
model_line_rst1(name, line, tablefmt) ==
  LET l == find(line, "[")
      r == find(line, "]")
      author == slice(line, 1 + l, r - 4)
      year == slice(line, r - 4, r)
  IN  IF tablefmt = RST
        THEN <<name, <<":class:", BQ, "poem.models.">> \o name \o <<BQ>>,
               slice(line, l, r + 1)>>
      ELSE IF tablefmt = GITHUB
        THEN <<name, <<BQ, "poem.models.">> \o name \o <<BQ>>,
               capitalize(author) \o <<" *et al.*, ">> \o year>>
      ELSE <<name, capitalize(author) \o <<", ">> \o year>>

\* the row _get_model_lines yields for one model, from the first line of
\* its documentation
model_line(name, line, tablefmt) ==
  LET l == find(line, "[")
      r == find(line, "]")
      author == slice(line, 1 + l, r - 4)
      year == slice(line, r - 4, r)
  IN  IF tablefmt = RST
        THEN <<name, <<":class:", BQ, "poem.models.">> \o name \o <<BQ>>,
               slice(line, l, r + 2)>>
      ELSE IF tablefmt = GITHUB
        THEN <<name, <<BQ, "poem.models.">> \o name \o <<BQ>>,
               capitalize(author) \o <<" *et al.*, ">> \o year>>
      ELSE <<name, capitalize(author) \o <<", ">> \o year>>

\* The generator run to its end by list(): the rows yielded, and the
\* exception that ended it ("none": exhausted).
RECURSIVE ModelLinesFrom(_, _, _)
ModelLinesFrom(items, tablefmt, acc) ==
  IF items = <<>> THEN [lines |-> acc, raised |-> "none"]
  ELSE LET name == Head(items).name
           model == Head(items).value
       IN  IF doc_error(model.doc) # "none"
             THEN [lines |-> acc, raised |-> doc_error(model.doc)]
             ELSE ModelLinesFrom(Tail(items), tablefmt,
                    Append(acc, model_line(name, splitlines(model.doc)[1],
                                           tablefmt)))

get_model_lines(d, tablefmt) == ModelLinesFrom(sorted(d), tablefmt, <<>>)

(* ----------------------------- _get_lines ----------------------------- *)

\* the github branch: value.__name__ and the first line of value.__doc__,
\* and on AttributeError the registry name and the type's documentation
github_line(name, value, submodule) ==
  LET attrError == ~value.hasname \/ value.doc = None
      ref == IF attrError THEN name ELSE value.name
      doc == IF attrError THEN value.clsdoc ELSE splitlines(value.doc)[1]
  IN  <<name, <<BQ, "poem.", submodule, ".">> \o ref \o <<BQ>>, doc>>

\* an IndexError leaves the try block of the github branch uncaught
github_error(value) ==
  IF value.hasname /\ value.doc # None /\ splitlines(value.doc) = <<>>
    THEN "IndexError" ELSE "none"

line_error(value, tablefmt) ==
  IF tablefmt = RST THEN "none"
  ELSE IF tablefmt = GITHUB THEN github_error(value)
  ELSE doc_error(value.doc)

\* the row _get_lines yields for one entry
get_line(name, value, tablefmt, submodule) ==
  IF tablefmt = RST
    THEN <<name, <<":class:", BQ, "poem.", submodule, ".">> \o name \o <<BQ>>>>
  ELSE IF tablefmt = GITHUB THEN github_line(name, value, submodule)
  ELSE <<name, splitlines(value.doc)[1]>>

RECURSIVE LinesFrom(_, _, _, _)
LinesFrom(items, tablefmt, submodule, acc) ==
  IF items = <<>> THEN [lines |-> acc, raised |-> "none"]
  ELSE LET name == Head(items).name
           value == Head(items).value
       IN  IF line_error(value, tablefmt) # "none"
             THEN [lines |-> acc, raised |-> line_error(value, tablefmt)]
             ELSE LinesFrom(Tail(items), tablefmt, submodule,
                    Append(acc, get_line(name, value, tablefmt, submodule)))

get_lines(d, tablefmt, submodule) ==
  LinesFrom(sorted(d), tablefmt, submodule, <<>>)

(* ------------------------------- state -------------------------------- *)

VARIABLES
  models_dict,           \* the six registries, in registration order
  data_sets,
  training_dict,
  samplers_dict,
  evaluators_dict,
  metrics_dict,
  base_annotations,      \* set(BaseModule.__init__.__annotations__)
  hyperparameter_usage,  \* BaseModule._hyperparameter_usage
  argv,                  \* the command line of this process
  pc,                    \* "import", "main", "readme", "exit", "crashed"
  cls_i,                 \* position of the module-level loop over the models
  train_commands,        \* names of the subcommands added to the train group
  section,               \* position of github_readme
  out,                   \* what click.echo has written
  raised                 \* the exception that ended the process, or "none"

registries ==
  <<models_dict, data_sets, training_dict, samplers_dict, evaluators_dict,
    metrics_dict>>

inputs == <<registries, base_annotations, hyperparameter_usage, argv>>

vars == <<inputs, pc, cls_i, train_commands, section, out, raised>>

(* --------------------------- listing commands ------------------------- *)

Table(headers, g) ==
  [raised |-> g.raised,
   echo |-> [kind |-> "table", headers |-> headers, lines |-> g.lines]]

\* what each callback echoes: the table handed to tabulate, or the
\* exception raised while its lines are drawn
models(tablefmt) ==
  Table(IF tablefmt \in {RST, GITHUB}
          THEN <<"Name", "Reference", "Citation">>
          ELSE <<"Name", "Citation">>,
        get_model_lines(models_dict, tablefmt))

listing_headers(tablefmt) ==
  IF tablefmt = PLAIN THEN <<"Name", "Description">>
  ELSE <<"Name", "Reference", "Description">>

datasets(tablefmt) ==
  Table(listing_headers(tablefmt), get_lines(data_sets, tablefmt, "datasets"))

training(tablefmt) ==
  Table(listing_headers(tablefmt), get_lines(training_dict, tablefmt, "training"))

samplers(tablefmt) ==
  Table(listing_headers(tablefmt), get_lines(samplers_dict, tablefmt, "sampling"))

evaluators(tablefmt) ==
  Table(listing_headers(tablefmt), get_lines(evaluators_dict, tablefmt, "evaluators"))

metrics(tablefmt) ==
  Table(listing_headers(tablefmt), get_lines(metrics_dict, tablefmt, "evaluators"))

\* the ls group is a DefaultGroup: without a subcommand it runs
\* github-readme
LsCommand ==
  IF argv.group # "ls" THEN "-"
  ELSE IF argv.cmd = "" THEN "github-readme" ELSE argv.cmd

\* a listing callback run as the process's command: it echoes its table
\* and the process exits, or its exception ends the process
Run(result) ==
  /\ pc = "main"
  /\ IF result.raised # "none"
       THEN /\ raised' = result.raised
            /\ pc' = "crashed"
            /\ out' = out
       ELSE /\ out' = Append(out, result.echo)
            /\ pc' = "exit"
            /\ raised' = raised
  /\ UNCHANGED <<inputs, cls_i, train_commands, section>>

ls_models == LsCommand = "models" /\ Run(models(argv.tablefmt))

ls_datasets == LsCommand = "datasets" /\ Run(datasets(argv.tablefmt))

ls_training == LsCommand = "training" /\ Run(training(argv.tablefmt))

ls_samplers == LsCommand = "samplers" /\ Run(samplers(argv.tablefmt))

ls_evaluators == LsCommand = "evaluators" /\ Run(evaluators(argv.tablefmt))

ls_metrics == LsCommand = "metrics" /\ Run(metrics(argv.tablefmt))

(* ----------------------------- parameters ----------------------------- *)

init_name == <<"i", "n", "i", "t">>

\* the base parameters without the name 'init'
base_parameters_noinit == base_annotations

base_parameters == base_annotations \cup {init_name}

\* the least text of a non-empty set
MinStr(S) == CHOOSE x \in S : \A y \in S : y = x \/ StrLess(x, y)

\* sorted() of a set of distinct texts
RECURSIVE SortStrs(_)
SortStrs(S) ==
  IF S = {} THEN <<>> ELSE <<MinStr(S)>> \o SortStrs(S \ {MinStr(S)})

\* the items of _hyperparameter_usage outside base_parameters, sorted
hyperparemeter_usage ==
  SortStrs({k \in DOMAIN hyperparameter_usage : k \notin base_parameters})

\* the echoes of the loop of parameters from the i-th kept name on
RECURSIVE ParameterEchoes(_, _)
ParameterEchoes(names, i) ==
  IF names = <<>> THEN <<>>
  ELSE LET name == Head(names)
           values == SortStrs(hyperparameter_usage[name])
       IN  <<[kind |-> "param", i |-> i, name |-> name]>>
           \o [k \in 1..Len(values) |-> [kind |-> "value", value |-> values[k]]]
           \o ParameterEchoes(Tail(names), i + 1)

ls_parameters ==
  /\ pc = "main"
  /\ LsCommand = "parameters"
  /\ out' = out
            \o <<[kind |-> "echo",
                  text |-> "Names of __init__() parameters in all classes:"]>>
            \o ParameterEchoes(hyperparemeter_usage, 1)
  /\ pc' = "exit"
  /\ UNCHANGED <<inputs, cls_i, train_commands, section, raised>>

(* ---------------------------- github_readme --------------------------- *)

\* the titles with Data Sets and Training Modes exchanged
Sections_swapped ==
  <<"Models", "Training Modes", "Data Sets", "Evaluators", "Metrics">>

\* the section titles, in the order github_readme echoes them
Sections == <<"Models", "Data Sets", "Training Modes", "Evaluators", "Metrics">>

\* the callback github_readme invokes under each title
Invoked(title) ==
  CASE title = "Models" -> models(GITHUB)
    [] title = "Data Sets" -> datasets(GITHUB)
    [] title = "Training Modes" -> training(GITHUB)
    [] title = "Evaluators" -> evaluators(GITHUB)
    [] title = "Metrics" -> metrics(GITHUB)

ls_github_readme ==
  /\ pc = "main"
  /\ LsCommand = "github-readme"
  /\ pc' = "readme"
  /\ section' = 1
  /\ UNCHANGED <<inputs, cls_i, train_commands, out, raised>>

\* one echo of a title and the ctx.invoke that follows it
github_readme ==
  /\ pc = "readme"
  /\ LET title == Sections[section]
         result == Invoked(title)
         header == [kind |-> "header", title |-> title]
     IN  IF result.raised # "none"
           THEN /\ out' = Append(out, header)
                /\ raised' = result.raised
                /\ pc' = "crashed"
                /\ section' = section
           ELSE /\ out' = out \o <<header, result.echo>>
                /\ raised' = raised
                /\ pc' = IF section = Len(Sections) THEN "exit" ELSE "readme"
                /\ section' = section + 1
  /\ UNCHANGED <<inputs, cls_i, train_commands>>

(* ------------------------- start-up and train ------------------------- *)

\* build_cli_from_cls: the subcommand of a model class, or a failure when
\* a constructor parameter has a type it cannot turn into a flag
build_cli_from_cls(cls) == [ok |-> cls.buildable, name |-> cls.name]

\* as add_commands, a failure of build_cli_from_cls being passed over
add_commands_skip ==
  /\ pc = "import"
  /\ cls_i <= Len(models_dict)
  /\ LET command == build_cli_from_cls(models_dict[cls_i].value)
     IN  /\ train_commands' = IF command.ok
                                THEN train_commands \cup {command.name}
                                ELSE train_commands
         /\ cls_i' = cls_i + 1
         /\ UNCHANGED <<pc, raised>>
  /\ UNCHANGED <<inputs, section, out>>

\* one turn of the module-level loop: an exception of build_cli_from_cls
\* ends the import of the module
add_commands ==
  /\ pc = "import"
  /\ cls_i <= Len(models_dict)
  /\ LET command == build_cli_from_cls(models_dict[cls_i].value)
     IN  IF command.ok
           THEN /\ train_commands' = train_commands \cup {command.name}
                /\ cls_i' = cls_i + 1
                /\ UNCHANGED <<pc, raised>>
           ELSE /\ raised' = "BuildError"
                /\ pc' = "crashed"
                /\ UNCHANGED <<train_commands, cls_i>>
  /\ UNCHANGED <<inputs, section, out>>

\* the loop is over: main() is called
main ==
  /\ pc = "import"
  /\ cls_i > Len(models_dict)
  /\ pc' = "main"
  /\ UNCHANGED <<inputs, cls_i, train_commands, section, out, raised>>

\* train <subcommand>: click runs the subcommand mounted under that name,
\* and knows no other
train ==
  /\ pc = "main"
  /\ argv.group = "train"
  /\ IF argv.cmd \in train_commands
       THEN /\ out' = Append(out, [kind |-> "train", model |-> argv.cmd])
            /\ pc' = "exit"
            /\ raised' = raised
       ELSE /\ raised' = "UsageError"
            /\ pc' = "crashed"
            /\ out' = out
  /\ UNCHANGED <<inputs, cls_i, train_commands, section>>

(* --------------------------- initial states --------------------------- *)

\* texts of at most n characters over the characters of S
Texts(S, n) == UNION {[1..k -> S] : k \in 0..n}

\* the dicts of at most n of the items E
Dicts(E, n) == {d \in Texts(E, n) : IsDict(d)}

RegNames == {<<"B">>, <<"a">>, <<"a", "b">>}

Ls(cmd, tablefmt) == [group |-> "ls", cmd |-> cmd, tablefmt |-> tablefmt]

Train(cmd) == [group |-> "train", cmd |-> cmd, tablefmt |-> PLAIN]

\* the hierarchy of the usage example: parameters a and b on the base
\* constructor, a used by X and c used by Y and Z
ExampleAnnotations == {<<"a">>, <<"b">>}

ExampleUsage ==
  [k \in {<<"a">>, <<"c">>} |->
     IF k = <<"a">> THEN {<<"X">>} ELSE {<<"Y">>, <<"Z">>}]

Start(md, ds, tr, sa, ev, me, B, U, av) ==
  /\ models_dict = md
  /\ data_sets = ds
  /\ training_dict = tr
  /\ samplers_dict = sa
  /\ evaluators_dict = ev
  /\ metrics_dict = me
  /\ base_annotations = B
  /\ hyperparameter_usage = U
  /\ argv = av
  /\ pc = "import"
  /\ cls_i = 1
  /\ train_commands = {}
  /\ section = 0
  /\ out = <<>>
  /\ raised = "none"

\* one model, its documentation any text of MaxLen characters, no
\* documentation at all, or one of a few longer ones; ls models
CitedDoc == <<"[", "a", "b", "a", "a", "a", "a", "]">>

ModelDocs ==
  Texts({"[", "]", "a"}, MaxLen)
    \cup {None, <<NL>>, CitedDoc, CitedDoc \o <<"a", NL, "a", "]">>,
          <<"[", "A", "B", "a", "a", "a", "a", "]">>}

InitCitation ==
  \E doc \in ModelDocs, tablefmt \in Formats :
    Start(<<Item(<<"a">>, Class(<<"a">>, doc, TRUE))>>,
          <<>>, <<>>, <<>>, <<>>, <<>>,
          ExampleAnnotations, ExampleUsage, Ls("models", tablefmt))

\* several models in any registration order, some undocumented, some
\* that build_cli_from_cls rejects; ls models, train, ls
ModelItems ==
  {Item(n, Class(n, doc, ok)) :
     n \in RegNames, doc \in {None, CitedDoc, <<"a">>}, ok \in BOOLEAN}

InitModels ==
  \E md \in Dicts(ModelItems, MaxReg),
     av \in {Ls("models", f) : f \in Formats}
              \cup {Train(<<"a">>), Ls("", PLAIN)} :
    Start(md, <<>>, <<>>, <<>>, <<>>, <<>>,
          ExampleAnnotations, ExampleUsage, av)

\* one registry of classes and instances, documented or not, under each
\* of the five other listing commands
LongDoc == <<"a", NL, "b">>

ValueItems ==
  {Item(n, Class(<<"C">> \o n, doc, TRUE)) :
     n \in RegNames, doc \in {None, <<>>, LongDoc}}
    \cup {Item(n, Instance(doc)) : n \in RegNames, doc \in {None, LongDoc}}

InitListing ==
  \E d \in Dicts(ValueItems, MaxReg), tablefmt \in Formats,
     cmd \in {"datasets", "training", "samplers", "evaluators", "metrics"} :
    Start(<<>>,
          IF cmd = "datasets" THEN d ELSE <<>>,
          IF cmd = "training" THEN d ELSE <<>>,
          IF cmd = "samplers" THEN d ELSE <<>>,
          IF cmd = "evaluators" THEN d ELSE <<>>,
          IF cmd = "metrics" THEN d ELSE <<>>,
          ExampleAnnotations, ExampleUsage, Ls(cmd, tablefmt))

\* any base constructor and any usage map over a few names; ls parameters
UsageNames == {<<"a">>, <<"c">>, init_name}

Labels == {<<"X">>, <<"Y">>, <<"Z">>}

Usages ==
  UNION {[D -> SUBSET Labels \ {{}}] : D \in SUBSET UsageNames}

InitParameters ==
  \E B \in {{}, {<<"a">>}, {<<"a">>, <<"b">>}, {<<"c">>, init_name}},
     U \in Usages :
    Start(<<>>, <<>>, <<>>, <<>>, <<>>, <<>>, B, U, Ls("parameters", PLAIN))

\* registries of every size up to MaxReg, or holding one entry whose
\* documentation makes the github listing raise; ls github-readme
Sized(n) ==
  [k \in 1..n |->
     LET name == IF k = 1 THEN <<"a", "b">> ELSE
                 IF k = 2 THEN <<"a">> ELSE [j \in 1..k |-> "b"]
     IN  Item(name, Class(name, CitedDoc, TRUE))]

ReadmeModels ==
  {Sized(n) : n \in 0..MaxReg}
    \cup {<<Item(<<"a">>, Class(<<"a">>, None, TRUE))>>}

ReadmeDicts ==
  {Sized(n) : n \in 0..MaxReg}
    \cup {<<Item(<<"a">>, Class(<<"a">>, <<>>, TRUE))>>}

InitReadme ==
  \E md \in ReadmeModels, ds, tr, ev, me \in ReadmeDicts :
    Start(md, ds, tr, <<>>, ev, me, ExampleAnnotations, ExampleUsage,
          Ls("github-readme", PLAIN))

Init ==
  \/ InitCitation
  \/ InitModels
  \/ InitListing
  \/ InitParameters
  \/ InitReadme

Next ==
  \/ add_commands
  \/ main
  \/ ls_models
  \/ ls_parameters
  \/ ls_datasets
  \/ ls_training
  \/ ls_samplers
  \/ ls_evaluators
  \/ ls_metrics
  \/ ls_github_readme
  \/ github_readme
  \/ train

Spec == Init /\ [][Next]_vars

(* ------------------------- reading the state -------------------------- *)

ListingCommands ==
  {"models", "datasets", "training", "samplers", "evaluators", "metrics"}

NamedFormats == {PLAIN, RST, GITHUB}

RegistryOf(cmd) ==
  CASE cmd = "models" -> models_dict
    [] cmd = "datasets" -> data_sets
    [] cmd = "training" -> training_dict
    [] cmd = "samplers" -> samplers_dict
    [] cmd = "evaluators" -> evaluators_dict
    [] cmd = "metrics" -> metrics_dict

\* the process ran a listing command to its end, normal or not
Listed ==
  /\ LsCommand \in ListingCommands
  /\ pc \in {"exit", "crashed"}
  /\ raised # "BuildError"

\* it ran it and echoed its table
Echoed == LsCommand \in ListingCommands /\ pc = "exit"

HasLine(doc) == doc # None /\ splitlines(doc) # <<>>

\* every entry of d exposes a documentation text with a first line
Documented(d) == \A k \in 1..Len(d) : HasLine(d[k].value.doc)

\* 1-based position of the first ch of line after position p, 0 if none
FirstAfter(line, ch, p) ==
  IF \E k \in p + 1..Len(line) : line[k] = ch
    THEN CHOOSE k \in p + 1..Len(line) :
           line[k] = ch /\ \A j \in p + 1..k - 1 : line[j] # ch
    ELSE 0

\* the line holds a '[' and, later, a ']'
Bracketed(line) ==
  /\ FirstAfter(line, "[", 0) > 0
  /\ FirstAfter(line, "]", FirstAfter(line, "[", 0)) > 0

(* ------------------------------- claims ------------------------------- *)

C2_RowShape ==
  (Echoed /\ argv.tablefmt \in NamedFormats) =>
    \A k \in 1..Len(out[1].lines) :
      Len(out[1].lines[k]) = IF argv.tablefmt = PLAIN THEN 2 ELSE 3

\* the table a listing command echoes in plain format
PlainEcho(cmd) ==
  CASE cmd = "models" -> models(PLAIN).echo
    [] cmd = "datasets" -> datasets(PLAIN).echo
    [] cmd = "training" -> training(PLAIN).echo
    [] cmd = "samplers" -> samplers(PLAIN).echo
    [] cmd = "evaluators" -> evaluators(PLAIN).echo
    [] cmd = "metrics" -> metrics(PLAIN).echo

\* C3: a listing command given a --tablefmt that is none of plain, rst,
\* github echoes the headers and the rows it echoes for plain.
C3_UnknownIsPlain ==
  (Echoed /\ argv.tablefmt \notin NamedFormats) =>
    /\ out[1].headers = PlainEcho(LsCommand).headers
    /\ out[1].lines = PlainEcho(LsCommand).lines

\* the year and the author as C4 places them: the 4 characters before the
\* first ']' after the first '[', and what lies between that '[' and them
ClaimedYear(line) ==
  LET q == FirstAfter(line, "]", FirstAfter(line, "[", 0))
  IN  SubSeq(line, q - 4, q - 1)

ClaimedAuthor(line) ==
  LET p == FirstAfter(line, "[", 0)
      q == FirstAfter(line, "]", p)
  IN  SubSeq(line, p + 1, q - 5)

\* the one model of a single-model registry, and its first line
TheModel == models_dict[1].value

TheLine == splitlines(TheModel.doc)[1]

OneModelListed ==
  /\ Echoed
  /\ LsCommand = "models"
  /\ Len(models_dict) = 1
  /\ HasLine(TheModel.doc)

\* C4: for a non-empty first line holding a '[' and later a ']', with 4
\* characters before that ']', the citation echoed is made of the author
\* and the year taken around the first ']' after the first '[', also when
\* another ']' comes before the '['.
C4_FirstClosingAfterOpening ==
  (/\ OneModelListed
   /\ argv.tablefmt # RST
   /\ Bracketed(TheLine)
   /\ FirstAfter(TheLine, "]", FirstAfter(TheLine, "[", 0)) > 4) =>
    out[1].lines[1][Len(out[1].lines[1])] =
      capitalize(ClaimedAuthor(TheLine))
        \o (IF argv.tablefmt = GITHUB THEN <<" *et al.*, ">> ELSE <<", ">>)
        \o ClaimedYear(TheLine)

\* C5, as stated: in rst format the third field of the row of a model
\* whose first line holds a bracketed citation is the span from the '[' to
\* the closing ']', the ']' included and nothing after it.
C5_SpanEndsAtBracket ==
  (OneModelListed /\ argv.tablefmt = RST /\ Bracketed(TheLine)) =>
    LET p == FirstAfter(TheLine, "[", 0)
        q == FirstAfter(TheLine, "]", p)
    IN  out[1].lines[1][3] = SubSeq(TheLine, p, q)

\* C5, amended: the third field starts at the first '[' and runs through
\* the character after the first ']' of the line, or through that ']'
\* when it ends the line; when that ']' comes before the '[', the field
\* is the '[' alone if the ']' is the character just before it, and empty
\* otherwise.
C5_SpanRunsOnePast ==
  (OneModelListed /\ argv.tablefmt = RST /\ Bracketed(TheLine)) =>
    LET p == FirstAfter(TheLine, "[", 0)
        q == FirstAfter(TheLine, "]", 0)
        field == out[1].lines[1][3]
    IN  IF p < q
          THEN /\ Len(field) = (IF q = Len(TheLine) THEN q ELSE q + 1) - p + 1
               /\ \A k \in 1..Len(field) : field[k] = TheLine[p + k - 1]
        ELSE IF q = p - 1 THEN field = <<"[">>
        ELSE field = <<>>

C5_Witness ==
  /\ OneModelListed
  /\ argv.tablefmt = RST
  /\ TheLine = <<"a", "[", "a", "]", "a", "a">>
  /\ out[1].lines[1][3] = <<"[", "a", "]", "a">>

\* the line is not empty and holds no '[', or no ']'
LacksBracket(line) ==
  /\ line # <<>>
  /\ (\A k \in 1..Len(line) : line[k] # "[")
       \/ (\A k \in 1..Len(line) : line[k] # "]")

\* C6: in a registry of models that all expose a first documentation
\* line, the models whose non-empty first line holds no '[' or no ']'
\* make ls models raise nothing, in any format, and each of them gets
\* its one row.
C6_MissingBracketsDoNotRaise ==
  (/\ LsCommand = "models"
   /\ Listed
   /\ Documented(models_dict)
   /\ \E k \in 1..Len(models_dict) :
        LacksBracket(splitlines(models_dict[k].value.doc)[1])) =>
    /\ pc = "exit"
    /\ raised = "none"
    /\ \A k \in 1..Len(models_dict) :
         LacksBracket(splitlines(models_dict[k].value.doc)[1]) =>
           Cardinality({j \in 1..Len(out[1].lines) :
                          out[1].lines[j][1] = models_dict[k].name}) = 1

C6_Witness ==
  /\ OneModelListed
  /\ argv.tablefmt = GITHUB
  /\ TheLine = <<"a", "a">>
  /\ raised = "none"
  /\ Len(out[1].lines) = 1

\* the positions of out after p that the values of the name echoed at p
\* fill: the run of value echoes that follows it
ValueRun(p) ==
  {q \in p + 1..Len(out) : \A j \in p + 1..q : out[j].kind = "value"}

ParamPositions == {p \in 1..Len(out) : out[p].kind = "param"}

\* what C7 says of the echoes of a finished ls parameters
C7_Echoes ==
  (LsCommand = "parameters" /\ pc = "exit") =>
    LET kept == {k \in DOMAIN hyperparameter_usage :
                   k \notin base_annotations /\ k # <<"i", "n", "i", "t">>}
    IN  /\ out[1].kind = "echo"
        /\ \A q \in 2..Len(out) : out[q].kind \in {"param", "value"}
        /\ Cardinality(ParamPositions) = Cardinality(kept)
        /\ {out[p].name : p \in ParamPositions} = kept
        /\ \A p \in ParamPositions :
             /\ out[p].i = Cardinality({q \in ParamPositions : q <= p})
             /\ \A q \in ParamPositions :
                  p < q => StrLess(out[p].name, out[q].name)
             /\ Cardinality(ValueRun(p))
                  = Cardinality(hyperparameter_usage[out[p].name])
             /\ {out[q].value : q \in ValueRun(p)}
                  = hyperparameter_usage[out[p].name]
             /\ \A q \in ValueRun(p) :
                  q + 1 \in ValueRun(p) =>
                    StrLess(out[q].value, out[q + 1].value)
        /\ \A q \in 2..Len(out) :
             out[q].kind = "value" => \E p \in ParamPositions : q \in ValueRun(p)

\* C7: ls parameters echoes exactly the names of the usage map that are
\* neither base constructor parameters nor 'init', each once, numbered
\* from 1 in ascending order of name, each followed by its usage labels in
\* ascending order; and no step changes the usage map or the base
\* parameter set.
C7_ParametersListing ==
  /\ []C7_Echoes
  /\ [][UNCHANGED <<base_annotations, hyperparameter_usage>>]_vars

C7_Witness ==
  /\ LsCommand = "parameters"
  /\ pc = "exit"
  /\ base_annotations = {<<"a">>, <<"b">>}
  /\ DOMAIN hyperparameter_usage = {<<"a">>, <<"c">>}
  /\ hyperparameter_usage[<<"a">>] = {<<"X">>}
  /\ hyperparameter_usage[<<"c">>] = {<<"Y">>, <<"Z">>}
  /\ Len(out) = 4
  /\ out[2] = [kind |-> "param", i |-> 1, name |-> <<"c">>]
  /\ out[3].value = <<"Y">>
  /\ out[4].value = <<"Z">>

\* the registry whose table follows the k-th title of the report
SectionRegistry(k) ==
  CASE k = 1 -> models_dict
    [] k = 2 -> data_sets
    [] k = 3 -> training_dict
    [] k = 4 -> evaluators_dict
    [] k = 5 -> metrics_dict

\* C8: what github-readme has echoed is at every moment a title, the
\* github table of the registry of that title, the next title, ..., the
\* titles being Models, Data Sets, Training Modes, Evaluators, Metrics in
\* that order; a run that ends normally has echoed all five titles and
\* five tables, an empty registry giving a table without rows.
C8_FiveSectionsInOrder ==
  LsCommand = "github-readme" =>
    /\ \A k \in 1..Len(out) :
         IF k % 2 = 1
           THEN /\ out[k].kind = "header"
                /\ out[k].title =
                     <<"Models", "Data Sets", "Training Modes", "Evaluators",
                       "Metrics">>[(k + 1) \div 2]
           ELSE /\ out[k].kind = "table"
                /\ Len(out[k].headers) = 3
                /\ Len(out[k].lines) = Len(SectionRegistry(k \div 2))
                /\ {out[k].lines[j][1] : j \in 1..Len(out[k].lines)}
                     = Keys(SectionRegistry(k \div 2))
    /\ pc = "exit" => Len(out) = 10
    /\ pc = "crashed" /\ raised # "BuildError" =>
         Len(out) % 2 = 1 /\ Len(out) <= 9
    /\ pc = "readme" => Len(out) = 2 * (section - 1)

C8_Witness ==
  /\ LsCommand = "github-readme"
  /\ pc = "exit"
  /\ Len(models_dict) = 2
  /\ data_sets = <<>>
  /\ Len(training_dict) = 1
  /\ Len(out) = 10
  /\ out[4].lines = <<>>
  /\ Len(out[6].lines) = 1

\* C9: a github listing of a registry holding an entry without
\* documentation, on the entry and on its type, ends in a failure and
\* echoes no row whose description is None.
C9_UndocumentedEntryFails ==
  (/\ Listed
   /\ LsCommand # "models"
   /\ argv.tablefmt = GITHUB
   /\ \E k \in 1..Len(RegistryOf(LsCommand)) :
        /\ RegistryOf(LsCommand)[k].value.doc = None
        /\ RegistryOf(LsCommand)[k].value.clsdoc = None) =>
    /\ pc = "crashed"
    /\ \A e \in 1..Len(out) : \A j \in 1..Len(out[e].lines) :
         out[e].lines[j][3] # None

Unbuildable == \E k \in 1..Len(models_dict) : ~models_dict[k].value.buildable

\* C10: a command is dispatched only once every registered model has its
\* train subcommand; when the subcommand of some model cannot be built the
\* process fails at start-up, having dispatched and echoed nothing, and
\* the command surface never comes up short of a subcommand.
C10_StartupBuildsAllOrFails ==
  /\ (pc \in {"main", "readme", "exit"} \/ raised \notin {"none", "BuildError"}) =>
       /\ ~Unbuildable
       /\ train_commands = {models_dict[k].value.name : k \in 1..Len(models_dict)}
  /\ Unbuildable => pc = "import" \/ (pc = "crashed" /\ raised = "BuildError")
  /\ raised = "BuildError" => out = <<>> /\ section = 0
  /\ pc = "import" => out = <<>>

C10_Witness ==
  /\ pc = "crashed"
  /\ raised = "BuildError"
  /\ Len(models_dict) = 2
  /\ models_dict[1].value.buildable
  /\ ~models_dict[2].value.buildable
  /\ train_commands = {models_dict[1].name}
  /\ argv.group = "ls"

=============================================================================
